---- MODULE Spec2Model ----
(***************************************************************************)
(* Receipt processor (src/server.go): an in-memory receipt store guarded   *)
(* by one mutex, the two HTTP handlers processReceipt and getPoints, and   *)
(* the scoring function calculatePoints.                                   *)
(*                                                                         *)
(* Text is modelled as a sequence of one-character strings, so that the    *)
(* string operations of the code (HasSuffix, ReplaceAll, Atoi, ParseFloat, *)
(* TrimSpace, Split, time.Parse) are computed character by character.      *)
(* All text of the model is ASCII, where Go's len (bytes) is Len.          *)
(***************************************************************************)
EXTENDS Integers, Sequences, FiniteSets, TLC

\* ------------------------------------------------------------------ bounds

\* Number of concurrent request tasks (one goroutine per request).
MaxTasks == 3
\* Longest item list of a generated receipt.
MaxItems == 2

\* ------------------------------------------------------------ characters

DigitChars == <<"0", "1", "2", "3", "4", "5", "6", "7", "8", "9">>

Digits == {DigitChars[i] : i \in 1..Len(DigitChars)}

Letters ==
  {"a","b","c","d","e","f","g","h","i","j","k","l","m",
   "n","o","p","q","r","s","t","u","v","w","x","y","z",
   "A","B","C","D","E","F","G","H","I","J","K","L","M",
   "N","O","P","Q","R","S","T","U","V","W","X","Y","Z"}

\* unicode.IsSpace restricted to ASCII, as strings.TrimSpace uses it.
Spaces == {" ", "\t", "\n", "\r"}

DigitVal(c) == (CHOOSE i \in 1..Len(DigitChars) : DigitChars[i] = c) - 1

AllDigits(s) == \A i \in 1..Len(s) : s[i] \in Digits

RECURSIVE DecVal(_)
\* The value of a string of decimal digits.
DecVal(s) ==
  IF s = <<>> THEN 0
  ELSE 10 * DecVal(SubSeq(s, 1, Len(s) - 1)) + DigitVal(s[Len(s)])

\* Go's % : the remainder has the sign of the dividend.
GoRem(a, b) == IF a >= 0 THEN a % b ELSE -((-a) % b)

\* ------------------------------------------------------- library functions

\* regexp [a-zA-Z0-9], FindAllString(..., -1) and len of the matches.
CountAlnum(s) == Cardinality({i \in 1..Len(s) : s[i] \in Letters \cup Digits})

\* strings.HasSuffix
HasSuffix(s, suffix) ==
  /\ Len(s) >= Len(suffix)
  /\ SubSeq(s, Len(s) - Len(suffix) + 1, Len(s)) = suffix

RECURSIVE ReplaceAll(_, _, _)
\* strings.ReplaceAll for a one-character old.
ReplaceAll(s, old, new) ==
  IF s = <<>> THEN <<>>
  ELSE (IF Head(s) = old THEN new ELSE <<Head(s)>>) \o ReplaceAll(Tail(s), old, new)

\* strconv.Atoi: an optional sign, then one or more decimal digits. A syntax
\* error returns 0 and the error. (The texts of the model are short: the
\* range error of a number past 64 bits does not arise.)
Atoi(s) ==
  LET signed == s # <<>> /\ s[1] \in {"+", "-"}
      body   == IF signed THEN Tail(s) ELSE s
      ok     == body # <<>> /\ AllDigits(body)
  IN  IF ~ok THEN [err |-> TRUE, val |-> 0]
      ELSE [err |-> FALSE,
            val |-> IF signed /\ s[1] = "-" THEN -DecVal(body) ELSE DecVal(body)]

\* strconv.ParseFloat(s, 64) on decimal notation: an optional sign, digits with
\* at most one point and at least one digit. The value is num/den. A syntax
\* error returns 0 and the error. (No text of the model holds an exponent, a
\* hexadecimal prefix, "inf" or "nan".)
ParseFloat(s) ==
  LET signed == s # <<>> /\ s[1] \in {"+", "-"}
      body   == IF signed THEN Tail(s) ELSE s
      points == {i \in 1..Len(body) : body[i] = "."}
      digs   == ReplaceAll(body, ".", <<>>)
      ok     == Cardinality(points) <= 1 /\ digs # <<>> /\ AllDigits(digs)
      frac   == IF points = {} THEN 0 ELSE Len(body) - (CHOOSE i \in points : TRUE)
      mag    == DecVal(digs)
  IN  IF ~ok THEN [err |-> TRUE, num |-> 0, den |-> 1]
      ELSE [err |-> FALSE,
            num |-> IF signed /\ s[1] = "-" THEN -mag ELSE mag,
            den |-> 10 ^ frac]

\* int(math.Ceil(price * 0.2)) for price = num/den, den > 0. price * 0.2 in
\* float64 is an integer exactly when num/(5 den) is one (the product of an
\* integer multiple of 5 and the float64 nearest 0.2 rounds to the integer),
\* and otherwise lies strictly between the same two integers.
CeilFifth(num, den) == -((-num) \div (5 * den))

RECURSIVE TrimLeft(_)
TrimLeft(s) == IF s # <<>> /\ Head(s) \in Spaces THEN TrimLeft(Tail(s)) ELSE s

RECURSIVE TrimRight(_)
TrimRight(s) ==
  IF s # <<>> /\ s[Len(s)] \in Spaces THEN TrimRight(SubSeq(s, 1, Len(s) - 1)) ELSE s

\* strings.TrimSpace
TrimSpace(s) == TrimRight(TrimLeft(s))

RECURSIVE Split(_, _)
\* strings.Split for a one-character separator: always at least one part.
Split(s, sep) ==
  IF \A i \in 1..Len(s) : s[i] # sep THEN <<s>>
  ELSE LET k == CHOOSE i \in 1..Len(s) :
                  s[i] = sep /\ \A j \in 1..(i - 1) : s[j] # sep
       IN  <<SubSeq(s, 1, k - 1)>> \o Split(SubSeq(s, k + 1, Len(s)), sep)

\* time.Parse("15:04", s): the hour is one or two digits (two when the second
\* character is a digit) and below 24, then ":", then the minute as exactly
\* two digits below 60, and nothing after it.
ParseTime(s) ==
  LET hlen == IF Len(s) >= 2 /\ s[2] \in Digits THEN 2 ELSE 1
      hok  == Len(s) >= 1 /\ s[1] \in Digits
      rest == SubSeq(s, hlen + 1, Len(s))
      mok  == Len(rest) = 3 /\ rest[1] = ":" /\ rest[2] \in Digits /\ rest[3] \in Digits
      hour == DecVal(SubSeq(s, 1, hlen))
      min  == DecVal(SubSeq(rest, 2, 3))
  IN  IF hok /\ mok /\ hour < 24 /\ min < 60
      THEN [err |-> FALSE, hour |-> hour, min |-> min]
      ELSE [err |-> TRUE, hour |-> 0, min |-> 0]

\* ---------------------------------------------------------------- scoring

\* Rule 1 (server.go 134-144): one point per alphanumeric retailer character.
RetailerPoints(receipt) == CountAlnum(receipt.retailer)

\* Rule 2 with the 50 points taken instead of given.
RoundDollarPenalty(receipt) ==
  IF HasSuffix(receipt.total, <<".", "0", "0">>) THEN -50 ELSE 0

\* Rule 2 (server.go 146-150): 50 points when the total ends in ".00".
RoundDollarPoints(receipt) ==
  IF HasSuffix(receipt.total, <<".", "0", "0">>) THEN 50 ELSE 0

\* Rule 3 (server.go 152-157): the total without its points is read as an
\* integer, the error of Atoi is discarded, and 25 points are added when
\* that integer is a multiple of 25.
QuarterPoints(receipt) ==
  LET totalInCents == Atoi(ReplaceAll(receipt.total, ".", <<>>)).val
  IN  IF GoRem(totalInCents, 25) = 0 THEN 25 ELSE 0

\* Rule 4 (server.go 159-162): 5 points for every two items.
ItemCountPoints(receipt) == (Len(receipt.items) \div 2) * 5

\* Rule 5 on the length of the description as printed, blanks included.
ItemPointsUntrimmed(item) ==
  LET price == ParseFloat(item.price)
  IN  IF GoRem(Len(item.shortDescription), 3) = 0
      THEN CeilFifth(price.num, price.den) ELSE 0

\* Rule 5, one item (server.go 168-174): the error of ParseFloat is discarded.
ItemPoints(item) ==
  LET trimmedLen == Len(TrimSpace(item.shortDescription))
      price      == ParseFloat(item.price)
  IN  IF GoRem(trimmedLen, 3) = 0 THEN CeilFifth(price.num, price.den) ELSE 0

RECURSIVE SumItemPoints(_)
\* Rule 5 (server.go 167-175): the loop over the items.
SumItemPoints(items) ==
  IF items = <<>> THEN 0 ELSE ItemPoints(Head(items)) + SumItemPoints(Tail(items))

\* server.go 178-179: dateParts[2] is indexed whatever the number of parts;
\* with fewer than three parts the index is out of range and the Go runtime
\* panics.
DatePanics(receipt) == Len(Split(receipt.purchaseDate, "-")) < 3

\* Rule 6 (server.go 177-182): 6 points when the third part of the date is
\* an integer with day % 2 = 1.
DayPoints(receipt) ==
  LET dateParts == Split(receipt.purchaseDate, "-")
      day       == Atoi(dateParts[3])
  IN  IF ~day.err /\ GoRem(day.val, 2) = 1 THEN 6 ELSE 0

\* Rule 7 with 14:00 inside the window.
TimePointsFromTwo(receipt) ==
  LET purchaseTime == ParseTime(receipt.purchaseTime)
  IN  IF ~purchaseTime.err /\ purchaseTime.hour \in {14, 15} THEN 10 ELSE 0

\* Rule 7 (server.go 184-191): 10 points when the time parses and the hour
\* is 14 with a minute past 0, or the hour is 15.
TimePoints(receipt) ==
  LET purchaseTime == ParseTime(receipt.purchaseTime)
      hour == purchaseTime.hour
      min  == purchaseTime.min
  IN  IF ~purchaseTime.err /\ ((hour = 14 /\ min > 0) \/ hour = 15) THEN 10 ELSE 0

\* calculatePoints (server.go 131-195): the sum of the rules in the order of
\* the code, or the panic of the date rule.
calculatePoints(receipt) ==
  IF DatePanics(receipt) THEN [panic |-> TRUE, points |-> 0]
  ELSE [panic |-> FALSE,
        points |-> RetailerPoints(receipt) + RoundDollarPoints(receipt)
                   + QuarterPoints(receipt) + ItemCountPoints(receipt)
                   + SumItemPoints(receipt.items) + DayPoints(receipt)
                   + TimePoints(receipt)]

\* ------------------------------------------------------- receipts as printed

RECURSIVE FormatInt(_)
\* The decimal digits of n >= 0.
FormatInt(n) ==
  IF n < 10 THEN <<DigitChars[n + 1]>>
  ELSE FormatInt(n \div 10) \o <<DigitChars[(n % 10) + 1]>>

\* Two digits, zero padded.
Pad2(n) == <<DigitChars[(n \div 10) + 1], DigitChars[(n % 10) + 1]>>

\* A monetary amount as the receipt prints it: dollars, a point, two digits.
FormatMoney(cents) == FormatInt(cents \div 100) \o <<".">> \o Pad2(cents % 100)

\* purchaseDate, YYYY-MM-DD.
FormatDate(year, month, day) ==
  FormatInt(year) \o <<"-">> \o Pad2(month) \o <<"-">> \o Pad2(day)

\* purchaseTime, 24-hour HH:MM.
FormatTime(hour, min) == Pad2(hour) \o <<":">> \o Pad2(min)

\* Retailer names, each with its number of ASCII letters and digits.
Retailers ==
  {[text |-> <<"T", "a", "r", "g", "e", "t">>, alnum |-> 6],
   [text |-> <<"M", "&", "M", " ", "C", "o", "r", "n", "e", "r", " ", "M", "a", "r", "k", "e", "t">>, alnum |-> 14]}

\* Items: the description as printed, the length of the description without
\* its leading and trailing blanks, and the price in cents.
ItemChoices ==
  {[desc |-> <<"P", "e", "p", "s", "i", " ", "-", " ", "1", "2", "-", "o", "z">>, trimmedLen |-> 13, cents |-> 125],
   [desc |-> <<" ", "B", "a", "r", " ">>, trimmedLen |-> 3, cents |-> 500],
   [desc |-> <<" ", " ", " ">>, trimmedLen |-> 0, cents |-> 501],
   [desc |-> <<"G", "u", "m", " ", "6", "p">>, trimmedLen |-> 6, cents |-> 1225],
   [desc |-> <<"O", "x">>, trimmedLen |-> 2, cents |-> 1000]}

ItemLists == UNION {[1..n -> ItemChoices] : n \in 0..MaxItems}

TotalChoices == {125, 10000, 999, 1050, 5}

DayChoices == {1, 2, 31}

TimeChoices == {<<13, 13>>, <<13, 1>>, <<14, 1>>}

\* The Receipt value that binding the printed fields produces.
MakeReceipt(v) ==
  [retailer     |-> v.retailer.text,
   purchaseDate |-> FormatDate(2022, 1, v.day),
   purchaseTime |-> FormatTime(v.hour, v.min),
   items        |-> [i \in 1..Len(v.items) |->
                       [shortDescription |-> v.items[i].desc,
                        price            |-> FormatMoney(v.items[i].cents)]],
   total        |-> FormatMoney(v.cents)]

\* The receipt of the README: Target, 2022-01-02, 13:13, one Pepsi, 1.25.
ReadmeValues ==
  [retailer |-> [text |-> <<"T", "a", "r", "g", "e", "t">>, alnum |-> 6],
   cents |-> 125, day |-> 2, hour |-> 13, min |-> 13,
   items |-> <<[desc |-> <<"P", "e", "p", "s", "i", " ", "-", " ", "1", "2", "-", "o", "z">>, trimmedLen |-> 13, cents |-> 125]>>]

\* Valid receipts: every combination of the choices above, and the README
\* receipt at every time of the day.
ValidValues ==
  {[retailer |-> r, cents |-> c, day |-> d, hour |-> t[1], min |-> t[2], items |-> l] :
     r \in Retailers, c \in TotalChoices, d \in DayChoices, t \in TimeChoices,
     l \in ItemLists}
  \cup {[ReadmeValues EXCEPT !.hour = h, !.min = m] : h \in 0..23, m \in 0..59}

\* Text that is no decimal number.
BadNumbers == {<<"a", "b", "c">>, <<"1", ".", "2", "x">>, <<"x", ".", "0", "0">>}

\* A valid receipt whose total, or whose first item's price, is malformed.
BadValues ==
  {[retailer |-> [text |-> <<"T", "a", "r", "g", "e", "t">>, alnum |-> 6], cents |-> 125, day |-> d,
    hour |-> 14, min |-> 30, items |-> l] : d \in {1, 2}, l \in ItemLists}

ScoreInputs ==
  {[kind |-> "valid", values |-> v, bad |-> <<>>, receipt |-> MakeReceipt(v)] :
     v \in ValidValues}
  \cup {[kind |-> "badTotal", values |-> v, bad |-> b,
         receipt |-> [MakeReceipt(v) EXCEPT !.total = b]] :
          v \in BadValues, b \in BadNumbers}
  \cup {[kind |-> "badPrice", values |-> v, bad |-> b,
         receipt |-> [MakeReceipt(v) EXCEPT !.items[1].price = b]] :
          v \in {w \in BadValues : w.items # <<>>}, b \in BadNumbers}

\* ------------------------------------------------------------------- state

VARIABLES
  receiptStore,  \* server.go 58: the map from identifier to Receipt
  storeLock,     \* server.go 61: the task holding the mutex, or NoTask
  pc,            \* where each request task is in its handler
  local,         \* each task's local variables: receipt, id, exists
  response,      \* the HTTP response each task has written
  startedAfter,  \* the Submit tasks that had responded when a getPoints began
  scoreIn,       \* the receipt handed to calculatePoints on its own
  scoreOut       \* what calculatePoints returned for it

vars ==
  <<receiptStore, storeLock, pc, local, response, startedAfter, scoreIn, scoreOut>>

storeVars == <<receiptStore, storeLock, pc, local, response, startedAfter>>

Tasks == 1..MaxTasks

NoTask == 0

\* The identifiers uuid.New can return: one for every task.
UUIDs == 1..MaxTasks

NoId == -1

\* The identifiers a client can ask for: any of them, drawn already or not
\* (a getPoints task draws none, so the last one is never drawn when asked).
ClientIds == UUIDs

\* The zero value of Receipt.
ZeroReceipt ==
  [retailer |-> <<>>, purchaseDate |-> <<>>, purchaseTime |-> <<>>,
   items |-> <<>>, total |-> <<>>]

\* The request bodies (JSON objects) clients post: the README receipt, the
\* same receipt with a date without dashes, and the same without the
\* retailer key.
ReadmeBody == MakeReceipt(ReadmeValues)

NoDashDateBody == [ReadmeBody EXCEPT !.purchaseDate = <<"2", "0", "2", "2", "0", "1", "0", "2">>]

NoRetailerBody ==
  [f \in DOMAIN ReadmeBody \ {"retailer"} |-> ReadmeBody[f]]

Bodies == {ReadmeBody, NoDashDateBody, NoRetailerBody}

\* ShouldBindJSON with the binding tags of Receipt and Item (server.go 21-42):
\* every string key must be present and non-empty, items must be present (it
\* may be empty), and so for each item (dive).
BindOK(b) ==
  /\ \A f \in {"retailer", "purchaseDate", "purchaseTime", "total"} :
       f \in DOMAIN b /\ b[f] # <<>>
  /\ "items" \in DOMAIN b
  /\ \A i \in 1..Len(b.items) :
       \A f \in {"shortDescription", "price"} :
         f \in DOMAIN b.items[i] /\ b.items[i][f] # <<>>

\* The identifiers uuid.New has returned so far.
Issued == {local[t].id : t \in {u \in Tasks : local[u].submit}} \ {NoId}

\* uuid.New (server.go 91): a random 122-bit identifier, taken never to
\* repeat one it returned before. Identifiers are opaque and only compared
\* for equality, so they are named in the order in which they are drawn:
\* the next one is the least that was not drawn yet. A client may ask for
\* any identifier at any time (ClientIds), drawn already or not.
NewUUIDs == {i \in UUIDs \ Issued : \A k \in UUIDs \ Issued : i <= k}

InitLocal ==
  [submit |-> FALSE, receipt |-> ZeroReceipt, id |-> NoId, exists |-> FALSE]

NoResponse == [status |-> 0, id |-> NoId, points |-> 0]

NoScoreIn == [kind |-> "none", values |-> ReadmeValues, bad |-> <<>>, receipt |-> ZeroReceipt]

NoScoreOut == [done |-> FALSE, panic |-> FALSE, points |-> 0]

InitStore ==
  /\ receiptStore = [i \in {} |-> ZeroReceipt]
  /\ storeLock = NoTask
  /\ pc = [t \in Tasks |-> "start"]
  /\ local = [t \in Tasks |-> InitLocal]
  /\ response = [t \in Tasks |-> NoResponse]
  /\ startedAfter = [t \in Tasks |-> {}]

Init ==
  /\ InitStore
  /\ scoreIn = NoScoreIn
  /\ scoreOut = NoScoreOut

\* Requests are numbered in the order in which their handlers start.
Arrives(t) ==
  /\ pc[t] = "start"
  /\ \A u \in Tasks : u < t => pc[u] # "start"

\* -------------------------------------------------------- processReceipt

\* server.go 84-88: the body does not bind; 400 and return.
BindFail(t) ==
  /\ Arrives(t)
  /\ \E b \in Bodies :
       /\ ~BindOK(b)
       /\ local' = [local EXCEPT ![t].submit = TRUE]
  /\ response' = [response EXCEPT ![t].status = 400]
  /\ pc' = [pc EXCEPT ![t] = "done"]
  /\ UNCHANGED <<receiptStore, storeLock, startedAfter, scoreIn, scoreOut>>

\* server.go 81-92: the body binds to the local receipt, and
\* id := uuid.New().String()
Bind(t) ==
  /\ Arrives(t)
  /\ \E b \in Bodies, i \in NewUUIDs :
       /\ BindOK(b)
       /\ local' = [local EXCEPT ![t].submit = TRUE, ![t].receipt = b, ![t].id = i]
  /\ pc' = [pc EXCEPT ![t] = "lockStore"]
  /\ UNCHANGED <<receiptStore, storeLock, response, startedAfter, scoreIn, scoreOut>>

\* server.go 95: storeLock.Lock()
LockStore(t) ==
  /\ pc[t] = "lockStore"
  /\ storeLock = NoTask
  /\ storeLock' = t
  /\ pc' = [pc EXCEPT ![t] = "store"]
  /\ UNCHANGED <<receiptStore, local, response, startedAfter, scoreIn, scoreOut>>

\* A map write that drops every other entry.
MapPutAlone(m, k, v) == [i \in {k} |-> v]

\* A map write that sets every entry to the new value.
MapPutAll(m, k, v) == [i \in DOMAIN m \cup {k} |-> v]

\* receiptStore[id] = receipt as a map: the entry of id is set, every other
\* entry is kept.
MapPut(m, k, v) == [i \in DOMAIN m \cup {k} |-> IF i = k THEN v ELSE m[i]]

\* server.go 96: receiptStore[id] = receipt
Store(t) ==
  /\ pc[t] = "store"
  /\ receiptStore' = MapPut(receiptStore, local[t].id, local[t].receipt)
  /\ pc' = [pc EXCEPT ![t] = "unlockStore"]
  /\ UNCHANGED <<storeLock, local, response, startedAfter, scoreIn, scoreOut>>

\* server.go 97: storeLock.Unlock()
UnlockStore(t) ==
  /\ pc[t] = "unlockStore"
  /\ storeLock' = NoTask
  /\ pc' = [pc EXCEPT ![t] = "respondId"]
  /\ UNCHANGED <<receiptStore, local, response, startedAfter, scoreIn, scoreOut>>

\* server.go 101: 200 with the identifier.
RespondId(t) ==
  /\ pc[t] = "respondId"
  /\ response' = [response EXCEPT ![t].status = 200, ![t].id = local[t].id]
  /\ pc' = [pc EXCEPT ![t] = "done"]
  /\ UNCHANGED <<receiptStore, storeLock, local, startedAfter, scoreIn, scoreOut>>

\* -------------------------------------------------------------- getPoints

\* The Submit tasks whose 200 response has been written.
Responded == {u \in Tasks : local[u].submit /\ response[u].status = 200}

\* server.go 108: id := context.Param("id")
Param(t) ==
  /\ Arrives(t)
  /\ \E i \in ClientIds : local' = [local EXCEPT ![t].id = i]
  /\ startedAfter' = [startedAfter EXCEPT ![t] = Responded]
  /\ pc' = [pc EXCEPT ![t] = "lockRead"]
  /\ UNCHANGED <<receiptStore, storeLock, response, scoreIn, scoreOut>>

\* getPoints going to its read without taking the lock.
LockReadSkipped(t) ==
  /\ pc[t] = "lockRead"
  /\ pc' = [pc EXCEPT ![t] = "read"]
  /\ UNCHANGED <<receiptStore, storeLock, local, response, startedAfter, scoreIn, scoreOut>>

\* server.go 112: storeLock.Lock()
LockRead(t) ==
  /\ pc[t] = "lockRead"
  /\ storeLock = NoTask
  /\ storeLock' = t
  /\ pc' = [pc EXCEPT ![t] = "read"]
  /\ UNCHANGED <<receiptStore, local, response, startedAfter, scoreIn, scoreOut>>

\* A lookup that finds nothing.
MapGetNothing(m, k) == [value |-> ZeroReceipt, ok |-> FALSE]

\* A lookup that reports every key as present.
MapGetAlwaysOk(m, k) ==
  [value |-> IF k \in DOMAIN m THEN m[k] ELSE ZeroReceipt, ok |-> TRUE]

\* m[k] with the comma-ok form: the value and true, or the zero value and
\* false.
MapGet(m, k) ==
  IF k \in DOMAIN m THEN [value |-> m[k], ok |-> TRUE]
  ELSE [value |-> ZeroReceipt, ok |-> FALSE]

\* server.go 113: receipt, exists := receiptStore[id]
Read(t) ==
  /\ pc[t] = "read"
  /\ LET got == MapGet(receiptStore, local[t].id)
     IN  local' = [local EXCEPT ![t].receipt = got.value, ![t].exists = got.ok]
  /\ pc' = [pc EXCEPT ![t] = "unlockRead"]
  /\ UNCHANGED <<receiptStore, storeLock, response, startedAfter, scoreIn, scoreOut>>

\* server.go 114: storeLock.Unlock()
UnlockRead(t) ==
  /\ pc[t] = "unlockRead"
  /\ storeLock' = NoTask
  /\ pc' = [pc EXCEPT ![t] = "check"]
  /\ UNCHANGED <<receiptStore, local, response, startedAfter, scoreIn, scoreOut>>

\* server.go 117-121: no receipt; 404 and return.
NotFound(t) ==
  /\ pc[t] = "check"
  /\ ~local[t].exists
  /\ response' = [response EXCEPT ![t].status = 404]
  /\ pc' = [pc EXCEPT ![t] = "done"]
  /\ UNCHANGED <<receiptStore, storeLock, local, startedAfter, scoreIn, scoreOut>>

\* server.go 117-128: the receipt exists; points := calculatePoints(receipt)
\* and 200 with the points.
Calculate(t) ==
  /\ pc[t] = "check"
  /\ local[t].exists
  /\ LET r == calculatePoints(local[t].receipt)
     IN  /\ ~r.panic
         /\ response' =
              [response EXCEPT ![t].status = 200, ![t].id = local[t].id,
                               ![t].points = r.points]
  /\ pc' = [pc EXCEPT ![t] = "done"]
  /\ UNCHANGED <<receiptStore, storeLock, local, startedAfter, scoreIn, scoreOut>>

\* server.go 124 and 65: calculatePoints panics; the Recovery middleware of
\* gin.Default() ends the request with 500.
CalculatePanic(t) ==
  /\ pc[t] = "check"
  /\ local[t].exists
  /\ calculatePoints(local[t].receipt).panic
  /\ response' = [response EXCEPT ![t].status = 500]
  /\ pc' = [pc EXCEPT ![t] = "done"]
  /\ UNCHANGED <<receiptStore, storeLock, local, startedAfter, scoreIn, scoreOut>>

\* ------------------------------------------------------------ specifications

Next ==
  \E t \in Tasks :
    \/ BindFail(t)
    \/ Bind(t)
    \/ LockStore(t)
    \/ Store(t)
    \/ UnlockStore(t)
    \/ RespondId(t)
    \/ Param(t)
    \/ LockRead(t)
    \/ Read(t)
    \/ UnlockRead(t)
    \/ NotFound(t)
    \/ Calculate(t)
    \/ CalculatePanic(t)

\* The handlers, run by MaxTasks concurrent requests.
Spec == Init /\ [][Next]_vars

\* calculatePoints applied to one receipt.
Score ==
  /\ ~scoreOut.done
  /\ LET r == calculatePoints(scoreIn.receipt)
     IN  scoreOut' = [done |-> TRUE, panic |-> r.panic, points |-> r.points]
  /\ UNCHANGED <<scoreIn, storeVars>>

InitScore ==
  /\ InitStore
  /\ scoreIn \in ScoreInputs
  /\ scoreOut = NoScoreOut

NextScore == Score

\* calculatePoints on its own, over the receipts of ScoreInputs.
SpecScore == InitScore /\ [][NextScore]_vars

\* ------------------------------------------------------------------ claims

\* The getPoints tasks that have read the store (server.go 113 done).
HasRead ==
  {t \in Tasks : ~local[t].submit
                 /\ pc[t] \in {"unlockRead", "check", "done"}}

\* The processReceipt tasks whose map write is done (server.go 96 done).
HasStored ==
  {u \in Tasks : local[u].submit
                 /\ pc[u] \in {"unlockStore", "respondId", "done"}
                 /\ response[u].status # 400}

\* The tasks inside a critical section of storeLock.
InCritical == {t \in Tasks : pc[t] \in {"store", "unlockStore", "read", "unlockRead"}}

\* C1: a getPoints that starts after a processReceipt has responded with id
\* for receipt R, and asks for id, finds the entry, reads exactly R and never
\* answers 404.
C1_LookupAfterSubmitReadsReceipt ==
  \A t \in HasRead : \A u \in startedAfter[t] :
    response[u].id = local[t].id =>
      /\ local[t].exists
      /\ local[t].receipt = local[u].receipt
      /\ response[t].status # 404

\* C1 witness: a getPoints that began after the Submit of its id responded
\* has answered with the points.
C1_Witness ==
  \E t \in HasRead : \E u \in startedAfter[t] :
    /\ response[u].id = local[t].id
    /\ pc[t] = "done"
    /\ response[t].status = 200

\* C2: the identifiers returned are pairwise distinct, the registry holds
\* exactly one entry per registration, and each returned identifier maps to
\* the receipt of the registration that returned it.
C2_RegistrationsDistinctAndKept ==
  /\ \A u, v \in Responded : u # v => response[u].id # response[v].id
  /\ Cardinality(DOMAIN receiptStore) = Cardinality(HasStored)
  /\ \A u \in HasStored :
       /\ local[u].id \in DOMAIN receiptStore
       /\ receiptStore[local[u].id] = local[u].receipt

\* C2 witness: two registrations of different receipts have both responded.
C2_Witness ==
  \E u, v \in Responded :
    /\ u # v
    /\ local[u].receipt # local[v].receipt
    /\ Cardinality(DOMAIN receiptStore) = 2

\* C3 as stated: a getPoints for an identifier that no processReceipt has
\* returned finds no receipt and answers 404.
C3_NeverReturnedIsNotFound ==
  \A t \in HasRead :
    local[t].id \notin {response[u].id : u \in Responded} =>
      /\ ~local[t].exists
      /\ pc[t] = "done" => response[t].status = 404

\* A step of a getPoints task leaves the registry as it is.
GetPointsKeepsStore ==
  \A t \in Tasks : (~local'[t].submit /\ pc'[t] # pc[t]) => receiptStore' = receiptStore

\* An identifier that is not in the registry is not found: no receipt is
\* read, no score is computed, and the answer is 404.
UnregisteredIsNotFound ==
  \A t \in HasRead :
    local[t].id \notin DOMAIN receiptStore =>
      /\ ~local[t].exists
      /\ local[t].receipt = ZeroReceipt
      /\ response[t].points = 0
      /\ pc[t] = "done" => response[t] = [NoResponse EXCEPT !.status = 404]

\* C3, amended: a getPoints for an identifier that no processReceipt has
\* stored answers 404, computes no score and leaves the registry unchanged.
C3_NeverStoredIsNotFound == []UnregisteredIsNotFound /\ [][GetPointsKeepsStore]_vars

\* C3 witness: a getPoints for an identifier that is not registered, while
\* another receipt is, has answered 404.
C3_Witness ==
  \E t \in HasRead :
    /\ local[t].id \notin DOMAIN receiptStore
    /\ receiptStore # [i \in {} |-> ZeroReceipt]
    /\ pc[t] = "done"
    /\ response[t].status = 404

\* Every entry of the registry is there, unchanged, after the step.
StoreEntriesKept ==
  \A i \in DOMAIN receiptStore :
    i \in DOMAIN receiptStore' /\ receiptStore'[i] = receiptStore[i]

\* Every answer of a getPoints that found its receipt is the outcome of
\* calculatePoints on the receipt registered under the identifier, and two
\* getPoints for one identifier answer alike.
AnswersFollowReceipt ==
  /\ \A t \in HasRead :
       (pc[t] = "done" /\ local[t].exists) =>
         /\ local[t].id \in DOMAIN receiptStore
         /\ LET r == calculatePoints(receiptStore[local[t].id])
            IN  response[t] = IF r.panic THEN [NoResponse EXCEPT !.status = 500]
                              ELSE [status |-> 200, id |-> local[t].id, points |-> r.points]
  /\ \A t, u \in HasRead :
       (pc[t] = "done" /\ pc[u] = "done" /\ local[t].id = local[u].id
        /\ local[t].exists /\ local[u].exists) => response[t] = response[u]

\* C4: a registered receipt is never altered or removed, and every getPoints
\* of its identifier gives the same answer, whatever else has run.
C4_ReceiptsImmutableSameAnswer == [][StoreEntriesKept]_vars /\ []AnswersFollowReceipt

\* C4 witness: two getPoints of one identifier have both answered with the
\* points of the README receipt.
C4_Witness ==
  \E t, u \in HasRead :
    /\ t # u
    /\ pc[t] = "done" /\ pc[u] = "done"
    /\ local[t].id = local[u].id
    /\ response[t].status = 200 /\ response[u].status = 200
    /\ response[t].points = 31 /\ response[u].points = 31

\* C7 as stated: a getPoints whose receipt was accepted and stored completes
\* with an integer point total.
C7_StoredReceiptAlwaysScores ==
  \A t \in HasRead :
    (pc[t] = "done" /\ local[t].exists) =>
      (response[t].status = 200 /\ response[t].points \in Nat)

\* C10: the lock is held exactly inside the map write and the map read, by
\* at most one task; no task holds it while binding, drawing an identifier,
\* checking, calculating, responding or after it is done; and the holder can
\* always take its next step, which leads to the Unlock.
C10_LockOnlyAroundMapAccess ==
  /\ Cardinality(InCritical) <= 1
  /\ \A t \in Tasks : (storeLock = t) <=> (t \in InCritical)
  /\ storeLock \in Tasks =>
       ENABLED (Store(storeLock) \/ UnlockStore(storeLock)
                \/ Read(storeLock) \/ UnlockRead(storeLock))

\* C10 witness: one task is about to calculate the score of the receipt it
\* read while another task holds the lock.
C10_Witness ==
  \E t, u \in Tasks : pc[t] = "check" /\ local[t].exists /\ storeLock = u /\ u # t

\* The points of one item by rule 5: a fifth of the price, rounded up, when
\* the trimmed length of the description is a multiple of 3.
Rule5Item(item) ==
  IF item.trimmedLen % 3 = 0 THEN (item.cents + 499) \div 500 ELSE 0

RECURSIVE Rule5Sum(_)
Rule5Sum(items) ==
  IF items = <<>> THEN 0 ELSE Rule5Item(Head(items)) + Rule5Sum(Tail(items))

\* Rules 2 and 3 on the total in cents.
TotalRules(v) ==
  (IF v.cents % 100 = 0 THEN 50 ELSE 0) + (IF v.cents % 25 = 0 THEN 25 ELSE 0)

\* Rules 1, 4, 5 and 6 on the values of a receipt.
OtherRules(v) ==
  v.retailer.alnum + 5 * (Len(v.items) \div 2) + Rule5Sum(v.items)
  + (IF v.day % 2 = 1 THEN 6 ELSE 0)

\* Rule 7 as the window (14:00, 16:00), in minutes of the day.
AfternoonWindow(v) ==
  IF 14 * 60 < 60 * v.hour + v.min /\ 60 * v.hour + v.min < 16 * 60 THEN 10 ELSE 0

\* C5: the score of a valid receipt is the sum of the seven rules; the
\* README receipt scores 31, the same receipt on 2022-01-01 at 13:01 scores
\* 37, and a total of 100.00 earns the 50 and the 25.
C5_ScoreIsSumOfRules ==
  (scoreOut.done /\ scoreIn.kind = "valid") =>
    /\ ~scoreOut.panic
    /\ scoreOut.points =
         OtherRules(scoreIn.values) + TotalRules(scoreIn.values)
         + AfternoonWindow(scoreIn.values)
    /\ scoreIn.receipt = ReadmeBody => scoreOut.points = 31
    /\ scoreIn.receipt = [ReadmeBody EXCEPT
                            !.purchaseDate = <<"2", "0", "2", "2", "-", "0", "1", "-", "0", "1">>,
                            !.purchaseTime = <<"1", "3", ":", "0", "1">>]
         => scoreOut.points = 37
    /\ scoreIn.receipt.total = <<"1", "0", "0", ".", "0", "0">> =>
         scoreOut.points = OtherRules(scoreIn.values) + 50 + 25
                           + AfternoonWindow(scoreIn.values)

\* C5 witness: a receipt with a total of 100.00, two items of which one has
\* a description of trimmed length 3, bought on an odd day in the afternoon,
\* has been scored.
C5_Witness ==
  /\ scoreOut.done
  /\ scoreIn.kind = "valid"
  /\ scoreIn.receipt.total = <<"1", "0", "0", ".", "0", "0">>
  /\ Len(scoreIn.receipt.items) = 2
  /\ \E i \in 1..2 : scoreIn.values.items[i].trimmedLen = 3
  /\ scoreIn.values.day = 31
  /\ scoreIn.values.hour = 14
  /\ scoreOut.points > 75

\* C6 as stated: a malformed total adds nothing for the two rules of the
\* total, a malformed price adds nothing for its item, and the rest of the
\* score is computed as usual.
C6_MalformedContributesZero ==
  scoreOut.done =>
    /\ scoreIn.kind = "badTotal" =>
         /\ ~scoreOut.panic
         /\ scoreOut.points = OtherRules(scoreIn.values) + AfternoonWindow(scoreIn.values)
    /\ scoreIn.kind = "badPrice" =>
         /\ ~scoreOut.panic
         /\ scoreOut.points =
              OtherRules(scoreIn.values) - Rule5Item(scoreIn.values.items[1])
              + TotalRules(scoreIn.values) + AfternoonWindow(scoreIn.values)

\* C8: the 10 points of the afternoon are in the score exactly when the hour
\* is 14 with a minute of at least 1, or the hour is 15.
C8_AfternoonBonusExactlyInWindow ==
  (scoreOut.done /\ scoreIn.kind = "valid") =>
    LET v == scoreIn.values
        bonus == scoreOut.points - OtherRules(v) - TotalRules(v)
    IN  /\ bonus \in {0, 10}
        /\ bonus = 10 <=> ((v.hour = 14 /\ v.min >= 1) \/ v.hour = 15)

\* C8 witness: the README receipt at 15:59 has been scored with the bonus.
C8_Witness ==
  /\ scoreOut.done
  /\ scoreIn.values = [ReadmeValues EXCEPT !.hour = 15, !.min = 59]
  /\ scoreOut.points = 41

\* C9: the score of a valid receipt is a non-negative integer.
C9_ScoreNonNegative ==
  (scoreOut.done /\ scoreIn.kind = "valid") =>
    (~scoreOut.panic /\ scoreOut.points \in Nat)

\* C9 witness: a valid receipt without items has been scored.
C9_Witness ==
  /\ scoreOut.done
  /\ scoreIn.kind = "valid"
  /\ scoreIn.receipt.items = <<>>
  /\ scoreOut.points >= 0

====
